---- MODULE Spec2Model ----
(***************************************************************************)
(* The dashboard of src/index.tsx: the App component's layout state        *)
(* (activeWidgets, editMode, showAddModal, the "dashboard_widgets" entry   *)
(* of localStorage) and the AIBriefingWidget's fetch state (briefing,      *)
(* loading, the generateContent calls it has started).                     *)
(*                                                                         *)
(* One action is one browser event handled to completion: the handler, the *)
(* re-render it causes and the effects of that render.                     *)
(***************************************************************************)
EXTENDS Integers, Sequences, FiniteSets, TLC

\* Calls to generateContent one page session may start.
MaxCalls == 2
\* AIBriefingWidget instances one page session may mount.
MaxMounts == 2
\* Longest array the layout functions are applied to when called directly.
MaxLen == 6

VARIABLES
    storage,        \* localStorage["dashboard_widgets"]
    app,            \* "unmounted" | "running" | "crashed" (render threw)
    activeWidgets,  \* App: useState<string[]>
    editMode,       \* App: useState(false)
    showAddModal,   \* App: useState(false)
    apiKey,         \* process.env.API_KEY is set
    aiMounted,      \* an AIBriefingWidget instance is mounted
    mounts,         \* instances mounted so far; the mounted one is number mounts
    briefing,       \* AIBriefingWidget: useState<string | null>(null)
    loading,        \* AIBriefingWidget: useState(false)
    calls,          \* the generateContent promises, in the order they were started
    refreshes       \* clicks on "Refresh Insight" the mounted instance has handled

vars == <<storage, app, activeWidgets, editMode, showAddModal, apiKey,
          aiMounted, mounts, briefing, loading, calls, refreshes>>

-----------------------------------------------------------------------------
(* JavaScript values that are not strings of the program *)

null == "null"
undefined == "undefined"

-----------------------------------------------------------------------------
(* The catalog *)

AVAILABLE_WIDGETS == <<"w-ai", "w-stats", "w-activity", "w-saved", "w-timer">>

CatalogIds == {AVAILABLE_WIDGETS[i] : i \in DOMAIN AVAILABLE_WIDGETS}

DefaultWidgets == <<"w-ai", "w-stats", "w-activity", "w-saved", "w-timer">>

-----------------------------------------------------------------------------
(* JSON text, as a sequence of tokens *)

LBracket == [k |-> "[", s |-> ""]
RBracket == [k |-> "]", s |-> ""]
Comma == [k |-> ",", s |-> ""]
NullTok == [k |-> "null", s |-> ""]
StrTok(str) == [k |-> "str", s |-> str]

ElemTok(e) == IF e \in {undefined, null} THEN NullTok ELSE StrTok(e)

RECURSIVE StringifyElems(_)
StringifyElems(a) ==
    IF a = <<>> THEN <<>>
    ELSE IF Len(a) = 1 THEN <<ElemTok(a[1])>>
    ELSE <<ElemTok(a[1]), Comma>> \o StringifyElems(Tail(a))

\* JSON.stringify of an array
JSONstringify(a) == <<LBracket>> \o StringifyElems(a) \o <<RBracket>>

SyntaxError == [kind |-> "throw", val |-> <<>>]

RECURSIVE ParseArray(_, _, _, _)
ParseArray(t, i, acc, expect) ==
    IF i > Len(t) THEN SyntaxError
    ELSE LET tok == t[i] IN
         CASE expect = "first" /\ tok.k = "]" ->
                 IF i = Len(t) THEN [kind |-> "array", val |-> acc] ELSE SyntaxError
           [] expect \in {"first", "value"} /\ tok.k = "str" ->
                 ParseArray(t, i + 1, Append(acc, tok.s), "sep")
           [] expect \in {"first", "value"} /\ tok.k = "null" ->
                 ParseArray(t, i + 1, Append(acc, null), "sep")
           [] expect = "sep" /\ tok.k = "," ->
                 ParseArray(t, i + 1, acc, "value")
           [] expect = "sep" /\ tok.k = "]" ->
                 IF i = Len(t) THEN [kind |-> "array", val |-> acc] ELSE SyntaxError
           [] OTHER -> SyntaxError

\* JSON.parse: an array, a string, null, or a SyntaxError
JSONparse(t) ==
    IF t = <<>> THEN SyntaxError
    ELSE IF t[1].k = "[" THEN ParseArray(t, 2, <<>>, "first")
    ELSE IF Len(t) = 1 /\ t[1].k = "str" THEN [kind |-> "string", val |-> <<t[1].s>>]
    ELSE IF Len(t) = 1 /\ t[1].k = "null" THEN [kind |-> "null", val |-> <<>>]
    ELSE SyntaxError

-----------------------------------------------------------------------------
(* localStorage *)

NoItem == [present |-> FALSE, text |-> <<>>]
Item(t) == [present |-> TRUE, text |-> t]

\* What the key may hold when the page is opened: nothing, layouts an earlier
\* session stored, and values that are not a JSON array of strings.
StoredLayouts ==
    { DefaultWidgets,
      <<>>,
      <<"w-stats", "w-ai">> }

MalformedItems ==
    { Item(<<>>),                               \* the empty string
      Item(<<LBracket, StrTok("w-ai")>>),       \* ["w-ai"     (cut short)
      Item(<<StrTok("w-ai")>>),                 \* "w-ai"      (a string)
      Item(<<NullTok>>) }                       \* null

InitialStorage ==
    {NoItem} \cup {Item(JSONstringify(l)) : l \in StoredLayouts} \cup MalformedItems

-----------------------------------------------------------------------------
(* App: the layout *)

Includes(a, x) == \E i \in 1..Len(a) : a[i] = x

\* a[i] of a JavaScript array, i counted from 0
JsGet(a, i) == IF i >= 0 /\ i < Len(a) THEN a[i + 1] ELSE undefined

\* a[i] = v on a JavaScript array: an index at the length extends the array, a
\* negative index sets a property and leaves the elements alone
JsSet(a, i, v) ==
    IF i >= 0 /\ i < Len(a) THEN [a EXCEPT ![i + 1] = v]
    ELSE IF i = Len(a) THEN Append(a, v)
    ELSE IF i < 0 THEN a
    ELSE a \o [j \in 1..(i - Len(a)) |-> undefined] \o <<v>>

\* Load, were the parsed array filtered to the identifiers of the catalog
LoadPruned(item) ==
    IF ~item.present \/ item.text = <<>>
    THEN [kind |-> "array", val |-> DefaultWidgets]
    ELSE LET p == JSONparse(item.text)
         IN  [kind |-> p.kind,
              val |-> SelectSeq(p.val, LAMBDA wId : wId \in CatalogIds)]

\* const saved = localStorage.getItem(...); saved ? JSON.parse(saved) : [...]
Load(item) ==
    IF ~item.present \/ item.text = <<>>
    THEN [kind |-> "array", val |-> DefaultWidgets]
    ELSE JSONparse(item.text)

\* Persist, were an empty layout removed from storage instead of stored
PersistNonEmpty(aw) == IF aw = <<>> THEN NoItem ELSE Item(JSONstringify(aw))

\* localStorage.setItem("dashboard_widgets", JSON.stringify(activeWidgets))
Persist(aw) == Item(JSONstringify(aw))

\* TargetIndex, were the directions exchanged
TargetIndexExchanged(index, direction) ==
    IF direction = "left" THEN index + 1 ELSE index - 1

TargetIndex(index, direction) == IF direction = "left" THEN index - 1 ELSE index + 1

\* MoveInRange, were the upper test targetIndex <= newWidgets.length
MoveInRangeInclusive(aw, index, direction) ==
    TargetIndex(index, direction) >= 0 /\ TargetIndex(index, direction) <= Len(aw)

\* moveWidget calls setActiveWidgets
MoveInRange(aw, index, direction) ==
    TargetIndex(index, direction) >= 0 /\ TargetIndex(index, direction) < Len(aw)

\* moveWidget, were the swap an assignment of the neighbour alone
moveWidgetCopy(aw, index, direction) ==
    JsSet(aw, index, JsGet(aw, TargetIndex(index, direction)))

\* the array moveWidget passes to setActiveWidgets
moveWidget(aw, index, direction) ==
    LET targetIndex == TargetIndex(index, direction)
        atTarget == JsGet(aw, targetIndex)
        atIndex == JsGet(aw, index)
    IN  JsSet(JsSet(aw, index, atTarget), targetIndex, atIndex)

\* removeWidget, were it splice(indexOf(id), 1): indexOf gives -1 for an id
\* that is absent, and splice(-1, 1) removes the last element
removeWidgetSplice(aw, id) ==
    IF Includes(aw, id)
    THEN LET p == CHOOSE i \in 1..Len(aw) : aw[i] = id /\ \A j \in 1..(i - 1) : aw[j] # id
         IN  SubSeq(aw, 1, p - 1) \o SubSeq(aw, p + 1, Len(aw))
    ELSE SubSeq(aw, 1, Len(aw) - 1)

removeWidget(aw, id) == SelectSeq(aw, LAMBDA wId : wId # id)

\* addWidget, were the includes test missing
addWidgetNoTest(aw, id) == Append(aw, id)

addWidget(aw, id) == IF ~Includes(aw, id) THEN Append(aw, id) ELSE aw

\* activeWidgets after moveWidget(index, direction) has run
AfterMove(aw, index, direction) ==
    IF MoveInRange(aw, index, direction)
    THEN moveWidget(aw, index, direction)
    ELSE aw

availableToAdd(aw) == {id \in CatalogIds : ~Includes(aw, id)}

\* the indices (from 0) of the entries the grid renders a WidgetContainer for
RenderedIndices(aw) == {i \in 0..(Len(aw) - 1) : aw[i + 1] \in CatalogIds}

\* the children of the grid: activeWidgets.map gives an element for an entry
\* AVAILABLE_WIDGETS.find resolves and null, which React renders as nothing,
\* for one it does not
RECURSIVE RenderedWidgets(_)
RenderedWidgets(aw) ==
    IF aw = <<>> THEN <<>>
    ELSE LET def == {w \in CatalogIds : w = aw[1]}
         IN  (IF def = {} THEN <<>> ELSE <<aw[1]>>) \o RenderedWidgets(Tail(aw))

\* the grid renders an AIBriefingWidget
RendersAI(aw) == \E i \in RenderedIndices(aw) : aw[i + 1] = "w-ai"

-----------------------------------------------------------------------------
(* AIBriefingWidget *)

NotConfiguredMsg == "API Key not configured. Please set process.env.API_KEY."
RuntimeFailureMsg == "Could not generate briefing at this time."

\* response.text of a call that resolves
Texts == {"Briefing A", "Briefing B"}

NewCall(inst) == [inst |-> inst, status |-> "pending", threw |-> FALSE, text |-> ""]

\* generateBriefing, were setLoading(true) above the API_KEY test
generateBriefingLoadingFirst(st, inst) ==
    IF ~apiKey
    THEN [st EXCEPT !.loading = TRUE, !.briefing = NotConfiguredMsg]
    ELSE [st EXCEPT !.loading = TRUE, !.calls = Append(@, NewCall(inst))]

\* generateBriefing up to its await, on the state st of instance inst
generateBriefing(st, inst) ==
    IF ~apiKey
    THEN [st EXCEPT !.briefing = NotConfiguredMsg]
    ELSE [st EXCEPT !.loading = TRUE, !.calls = Append(@, NewCall(inst))]

\* afterAwait, were setLoading(false) in the try block instead of finally
afterAwaitNoFinally(st, threw, text) ==
    IF threw
    THEN [st EXCEPT !.briefing = RuntimeFailureMsg]
    ELSE [st EXCEPT !.briefing = text, !.loading = FALSE]

\* generateBriefing after its await: try / catch / finally
afterAwait(st, threw, text) ==
    [st EXCEPT !.briefing = IF threw THEN RuntimeFailureMsg ELSE text,
               !.loading = FALSE]

FreshState(cs) == [briefing |-> null, loading |-> FALSE, calls |-> cs]

\* mountEffect, were the effect run twice on a mount
mountEffectTwice(cs, inst) ==
    generateBriefing(generateBriefing(FreshState(cs), inst), inst)

\* useEffect(() => { generateBriefing(); }, []) on the fresh state of a mount
mountEffect(cs, inst) == generateBriefing(FreshState(cs), inst)

\* OwnerMounted, were the fetch state kept per widget id and not per instance
AnyInstanceMounted(c) == aiMounted

\* the instance whose setBriefing / setLoading call c holds is still mounted
OwnerMounted(c) == aiMounted /\ calls[c].inst = mounts

AIState == [briefing |-> briefing, loading |-> loading, calls |-> calls]

SetAI(st) ==
    /\ briefing' = st.briefing
    /\ loading' = st.loading
    /\ calls' = st.calls

\* The render after the layout became aw: a widget that entered the grid is
\* mounted and its effect runs, one that left it is unmounted and its state
\* is gone; cs are the calls started so far.
Reconcile(aw, cs) ==
    IF RendersAI(aw) /\ ~aiMounted
    THEN /\ aiMounted' = TRUE
         /\ mounts' = mounts + 1
         /\ refreshes' = 0
         /\ SetAI(mountEffect(cs, mounts + 1))
    ELSE IF ~RendersAI(aw) /\ aiMounted
    THEN /\ aiMounted' = FALSE
         /\ refreshes' = 0
         /\ briefing' = null
         /\ loading' = FALSE
         /\ calls' = cs
         /\ UNCHANGED mounts
    ELSE /\ calls' = cs
         /\ UNCHANGED <<aiMounted, mounts, refreshes, briefing, loading>>

\* what the presentation sees of (briefing, loading)
FetchState ==
    IF ~aiMounted THEN "None"
    ELSE IF loading THEN "Loading"
    ELSE IF briefing = null THEN "Idle"
    ELSE IF briefing = NotConfiguredMsg THEN "FailedNotConfigured"
    ELSE IF briefing = RuntimeFailureMsg THEN "FailedRuntime"
    ELSE "Succeeded"

-----------------------------------------------------------------------------
(* The events *)

Init ==
    /\ storage \in InitialStorage
    /\ apiKey \in BOOLEAN
    /\ app = "unmounted"
    /\ activeWidgets = <<>>
    /\ editMode = FALSE
    /\ showAddModal = FALSE
    /\ aiMounted = FALSE
    /\ mounts = 0
    /\ briefing = null
    /\ loading = FALSE
    /\ calls = <<>>
    /\ refreshes = 0

\* root.render(<App />): the state initializers, the first render, the effects
PageLoad ==
    /\ app = "unmounted"
    /\ LET loaded == Load(storage) IN
       IF loaded.kind = "array"
       THEN /\ app' = "running"
            /\ activeWidgets' = loaded.val
            /\ storage' = Persist(loaded.val)
            /\ Reconcile(loaded.val, <<>>)
            /\ UNCHANGED <<editMode, showAddModal, apiKey>>
       ELSE /\ app' = "crashed"
            /\ UNCHANGED <<storage, activeWidgets, editMode, showAddModal, apiKey,
                           aiMounted, mounts, briefing, loading, calls, refreshes>>

\* the page is closed or reloaded: only localStorage outlives it
PageUnload ==
    /\ app \in {"running", "crashed"}
    /\ app' = "unmounted"
    /\ activeWidgets' = <<>>
    /\ editMode' = FALSE
    /\ showAddModal' = FALSE
    /\ aiMounted' = FALSE
    /\ mounts' = 0
    /\ briefing' = null
    /\ loading' = FALSE
    /\ calls' = <<>>
    /\ refreshes' = 0
    /\ UNCHANGED <<storage, apiKey>>

\* toggled, were the button to call setEditMode(true)
toggledOn(mode) == TRUE

\* !editMode
toggled(mode) == ~mode

\* EditControlsShown, were the arrows and the close button rendered in any mode
EditControlsAlways == TRUE

\* {editMode && ( ... )}: WidgetContainer renders the arrows and the close button
EditControlsShown == editMode

\* onClick={() => setEditMode(!editMode)}
ToggleEdit ==
    /\ app = "running"
    /\ editMode' = toggled(editMode)
    /\ UNCHANGED <<storage, app, activeWidgets, showAddModal, apiKey,
                   aiMounted, mounts, briefing, loading, calls, refreshes>>

\* onMove: the arrows of a rendered widget, shown in edit mode
MoveWidget(index, direction) ==
    /\ app = "running"
    /\ EditControlsShown
    /\ index \in RenderedIndices(activeWidgets)
    /\ IF MoveInRange(activeWidgets, index, direction)
       THEN /\ activeWidgets' = moveWidget(activeWidgets, index, direction)
            /\ storage' = Persist(activeWidgets')
            /\ Reconcile(activeWidgets', calls)
       ELSE UNCHANGED <<storage, activeWidgets, aiMounted, mounts, briefing,
                        loading, calls, refreshes>>
    /\ UNCHANGED <<app, editMode, showAddModal, apiKey>>

\* onRemove: the close button of a rendered widget, shown in edit mode
RemoveWidget(id) ==
    /\ app = "running"
    /\ EditControlsShown
    /\ \E i \in RenderedIndices(activeWidgets) : activeWidgets[i + 1] = id
    /\ activeWidgets' = removeWidget(activeWidgets, id)
    /\ storage' = Persist(activeWidgets')
    /\ Reconcile(activeWidgets', calls)
    /\ UNCHANGED <<app, editMode, showAddModal, apiKey>>

\* onClick={() => setShowAddModal(true)}
OpenAddModal ==
    /\ app = "running"
    /\ editMode
    /\ availableToAdd(activeWidgets) # {}
    /\ showAddModal' = TRUE
    /\ UNCHANGED <<storage, app, activeWidgets, editMode, apiKey,
                   aiMounted, mounts, briefing, loading, calls, refreshes>>

\* onClick={() => setShowAddModal(false)}
CloseAddModal ==
    /\ app = "running"
    /\ showAddModal
    /\ showAddModal' = FALSE
    /\ UNCHANGED <<storage, app, activeWidgets, editMode, apiKey,
                   aiMounted, mounts, briefing, loading, calls, refreshes>>

\* onClick={() => addWidget(w.id)}: an entry of the modal's list
AddWidget(id) ==
    /\ app = "running"
    /\ showAddModal
    /\ id \in availableToAdd(activeWidgets)
    /\ id = "w-ai" => mounts < MaxMounts /\ Len(calls) < MaxCalls
    /\ activeWidgets' = addWidget(activeWidgets, id)
    /\ IF activeWidgets' # activeWidgets
       THEN storage' = Persist(activeWidgets')
       ELSE UNCHANGED storage
    /\ showAddModal' = FALSE
    /\ Reconcile(activeWidgets', calls)
    /\ UNCHANGED <<app, editMode, apiKey>>

\* onClick={generateBriefing}: the "Refresh Insight" button
RefreshInsight ==
    /\ app = "running"
    /\ aiMounted
    /\ refreshes < MaxCalls
    /\ Len(calls) < MaxCalls
    /\ refreshes' = refreshes + 1
    /\ SetAI(generateBriefing(AIState, mounts))
    /\ UNCHANGED <<storage, app, activeWidgets, editMode, showAddModal, apiKey,
                   aiMounted, mounts>>

\* call c settles and generateBriefing resumes after its await; React drops
\* the state updates of an instance that is no longer mounted, and calls[c]
\* records what the instance's state received
Settle(c, threw, text) ==
    /\ app = "running"
    /\ c \in 1..Len(calls)
    /\ calls[c].status = "pending"
    /\ LET settled == [calls EXCEPT ![c] =
                          [inst |-> @.inst,
                           status |-> IF OwnerMounted(c) THEN "applied" ELSE "dropped",
                           threw |-> OwnerMounted(c) /\ threw,
                           text |-> IF OwnerMounted(c) THEN text ELSE ""]]
       IN IF OwnerMounted(c)
          THEN SetAI(afterAwait([AIState EXCEPT !.calls = settled], threw, text))
          ELSE /\ calls' = settled
               /\ UNCHANGED <<briefing, loading>>
    /\ UNCHANGED <<storage, app, activeWidgets, editMode, showAddModal, apiKey,
                   aiMounted, mounts, refreshes>>

CallResolves == \E c \in 1..MaxCalls, text \in Texts : Settle(c, FALSE, text)

CallRejects == \E c \in 1..MaxCalls : Settle(c, TRUE, "")

Next ==
    \/ PageLoad
    \/ PageUnload
    \/ ToggleEdit
    \/ \E index \in 0..(Len(AVAILABLE_WIDGETS)), direction \in {"left", "right"} :
           MoveWidget(index, direction)
    \/ \E id \in CatalogIds : RemoveWidget(id)
    \/ OpenAddModal
    \/ CloseAddModal
    \/ \E id \in CatalogIds : AddWidget(id)
    \/ RefreshInsight
    \/ CallResolves
    \/ CallRejects

Spec == Init /\ [][Next]_vars

-----------------------------------------------------------------------------
(* The layout functions called directly: moveWidget, removeWidget and        *)
(* addWidget with any argument, not only those the rendered buttons pass,    *)
(* each followed by the render and the effects it causes. No API_KEY.        *)

\* the render after the layout became aw mounts no instance beyond MaxMounts
MountAllowed(aw) == RendersAI(aw) /\ ~aiMounted => mounts < MaxMounts

CallMoveWidget(index, direction) ==
    /\ app = "running"
    /\ Len(AfterMove(activeWidgets, index, direction)) <= MaxLen
    /\ IF MoveInRange(activeWidgets, index, direction)
       THEN /\ activeWidgets' = moveWidget(activeWidgets, index, direction)
            /\ MountAllowed(activeWidgets')
            /\ storage' = Persist(activeWidgets')
            /\ Reconcile(activeWidgets', calls)
       ELSE UNCHANGED <<storage, activeWidgets, aiMounted, mounts, briefing,
                        loading, calls, refreshes>>
    /\ UNCHANGED <<app, editMode, showAddModal, apiKey>>

CallRemoveWidget(id) ==
    /\ app = "running"
    /\ activeWidgets' = removeWidget(activeWidgets, id)
    /\ storage' = Persist(activeWidgets')
    /\ Reconcile(activeWidgets', calls)
    /\ UNCHANGED <<app, editMode, showAddModal, apiKey>>

CallAddWidget(id) ==
    /\ app = "running"
    /\ Len(addWidget(activeWidgets, id)) <= MaxLen
    /\ activeWidgets' = addWidget(activeWidgets, id)
    /\ MountAllowed(activeWidgets')
    /\ IF activeWidgets' # activeWidgets
       THEN storage' = Persist(activeWidgets')
       ELSE UNCHANGED storage
    /\ showAddModal' = FALSE
    /\ Reconcile(activeWidgets', calls)
    /\ UNCHANGED <<app, editMode, apiKey>>

Directions == {"left", "right"}

\* index arguments: every index of an array of MaxLen elements, and beyond
Indices == (0 - 2)..(MaxLen + 1)

StoreInit == Init /\ ~apiKey

StoreNext ==
    \/ PageLoad
    \/ \E index \in Indices, direction \in Directions :
           CallMoveWidget(index, direction)
    \/ \E id \in CatalogIds : CallRemoveWidget(id)
    \/ \E id \in CatalogIds : CallAddWidget(id)

StoreSpec == StoreInit /\ [][StoreNext]_vars

-----------------------------------------------------------------------------
(* A layout stored under an earlier catalog: WidgetDef.type lists "weather", *)
(* AVAILABLE_WIDGETS has no such entry. No API_KEY, so no call is started.   *)

StaleId == "w-weather"

StaleStorage ==
    { Item(JSONstringify(<<"w-timer", StaleId, "w-ai">>)),
      Item(JSONstringify(<<StaleId>>)) }

StaleInit ==
    /\ storage \in StaleStorage
    /\ apiKey = FALSE
    /\ app = "unmounted"
    /\ activeWidgets = <<>>
    /\ editMode = FALSE
    /\ showAddModal = FALSE
    /\ aiMounted = FALSE
    /\ mounts = 0
    /\ briefing = null
    /\ loading = FALSE
    /\ calls = <<>>
    /\ refreshes = 0

\* the events of Next that need no call in flight
StaleNext ==
    \/ PageLoad
    \/ PageUnload
    \/ ToggleEdit
    \/ \E index \in 0..(Len(AVAILABLE_WIDGETS)), direction \in {"left", "right"} :
           MoveWidget(index, direction)
    \/ \E id \in CatalogIds : RemoveWidget(id)
    \/ OpenAddModal
    \/ CloseAddModal
    \/ \E id \in CatalogIds : AddWidget(id)
    \/ RefreshInsight

StaleSpec == StaleInit /\ [][StaleNext]_vars

-----------------------------------------------------------------------------
(* Properties *)

Running == app = "running"

\* the calls instance inst started, and those of them still in flight
CallsOf(inst) == {c \in 1..Len(calls) : calls[c].inst = inst}
PendingOf(inst) == {c \in CallsOf(inst) : calls[c].status = "pending"}

Latest(S) == CHOOSE c \in S : \A d \in S : d <= c

\* what a settled call wrote, or would have written, to briefing
Outcome(c) == IF calls[c].threw THEN RuntimeFailureMsg ELSE calls[c].text

Failed == FetchState \in {"FailedRuntime", "FailedNotConfigured"}

SameInstance == aiMounted /\ aiMounted' /\ mounts' = mounts

\* C1: whatever was appended, removed and moved since the layout was loaded,
\* no identifier is in the layout twice.
C1_NoDuplicates ==
    Running =>
        \A i, j \in 1..Len(activeWidgets) :
            i # j => activeWidgets[i] # activeWidgets[j]

\* a layout of all five widgets, reordered, with w-ai removed and added again
C1_Witness ==
    /\ Running
    /\ Len(activeWidgets) = 5
    /\ activeWidgets[1] = "w-timer"
    /\ activeWidgets[5] = "w-ai"
    /\ mounts = 2

\* C2: between any two events the stored item is the serialization of the
\* layout, and loading it gives back the layout, the empty layout included.
C2_StorageHoldsLayout ==
    Running =>
        /\ storage.present
        /\ storage.text = JSONstringify(activeWidgets)
        /\ Load(storage).kind = "array"
        /\ Load(storage).val = activeWidgets

\* every widget was removed in this session, w-ai among them
C2_Witness ==
    /\ Running
    /\ activeWidgets = <<>>
    /\ mounts = 1
    /\ storage.text = <<LBracket, RBracket>>

\* the item parses as a JSON array of strings
IsStringArrayJSON(item) ==
    /\ item.present
    /\ LET p == JSONparse(item.text) IN
       /\ p.kind = "array"
       /\ \A i \in 1..Len(p.val) : p.val[i] # null

\* C3: opening the page with the key absent, or holding anything but a JSON
\* array of strings, gives a running session showing the default layout.
C3_LoadNeverFails ==
    [][(app = "unmounted" /\ ~IsStringArrayJSON(storage))
          => (app' = "running" /\ activeWidgets' = DefaultWidgets)]_vars

\* C4: the mounted instance never has two calls in flight.
C4_SingleCallInFlight ==
    Running /\ aiMounted => Cardinality(PendingOf(mounts)) <= 1

\* C5: once all the calls of the mounted instance have settled, briefing is
\* the outcome of the call it started last.
C5_LatestCallWins ==
    Running /\ aiMounted /\ CallsOf(mounts) # {} /\ PendingOf(mounts) = {}
        => briefing = Outcome(Latest(CallsOf(mounts)))

\* C6: when a call settles whose instance is no longer mounted, the layout,
\* the stored item, the mode and the fetch state of the mounted instance stay
\* as they are, and so does every other call.
C6_OrphanSettleIsNoOp ==
    [][\A c \in 1..Len(calls) :
          ( /\ calls[c].status = "pending"
            /\ ~(aiMounted /\ calls[c].inst = mounts)
            /\ c <= Len(calls')
            /\ calls'[c].status # "pending" )
          => /\ UNCHANGED <<storage, app, activeWidgets, editMode, showAddModal,
                            aiMounted, mounts, briefing, loading, refreshes>>
             /\ Len(calls') = Len(calls)
             /\ \A d \in 1..Len(calls) : d # c => calls'[d] = calls[d]]_vars

\* w-ai was removed and added again while the first instance's call was in
\* flight; that call has settled, the second instance is still loading
C6_Witness ==
    /\ Running
    /\ aiMounted
    /\ mounts = 2
    /\ \E c \in CallsOf(1) : calls[c].status = "dropped"
    /\ PendingOf(2) # {}
    /\ loading
    /\ briefing = null

\* C7: without API_KEY no call is ever started and loading is never set; a
\* mounted instance shows the not-configured message, after the mount and
\* after every click on Refresh.
C7_NoKeyNoCall ==
    Running /\ ~apiKey =>
        /\ calls = <<>>
        /\ ~loading
        /\ aiMounted => FetchState = "FailedNotConfigured"

C7_Witness ==
    /\ Running
    /\ ~apiKey
    /\ aiMounted
    /\ mounts = 2
    /\ refreshes >= 1
    /\ briefing = NotConfiguredMsg

\* C8: with API_KEY set, a mount starts one call; until Refresh is clicked it
\* is the instance's only call, the instance is loading with no content while
\* the call is in flight and shows the call's text once it resolved, and from
\* then on it goes on showing that text.
C8_MountFetchesOnce ==
    /\ [](Running /\ apiKey /\ aiMounted =>
            /\ CallsOf(mounts) # {}
            /\ refreshes = 0 =>
                 /\ Cardinality(CallsOf(mounts)) = 1
                 /\ \A c \in CallsOf(mounts) :
                      /\ calls[c].status = "pending" =>
                            FetchState = "Loading" /\ briefing = null
                      /\ calls[c].status # "pending" /\ ~calls[c].threw =>
                            /\ FetchState = "Succeeded"
                            /\ briefing = calls[c].text
                            /\ calls[c].text \in Texts)
    /\ [][SameInstance /\ refreshes' = 0 =>
            /\ FetchState # "Succeeded" /\ FetchState' = "Succeeded" =>
                  FetchState = "Loading"
            /\ FetchState = "Succeeded" =>
                  FetchState' = "Succeeded" /\ briefing' = briefing]_vars

\* a second mount of the session, its call resolved, Refresh never clicked
C8_Witness ==
    /\ Running
    /\ apiKey
    /\ aiMounted
    /\ mounts = 2
    /\ refreshes = 0
    /\ FetchState = "Succeeded"

\* C9: a call of the mounted instance that throws leaves it showing the
\* runtime-failure message, not loading; one that resolves leaves it showing
\* the response; and a click on Refresh in a failed state starts a new call
\* and shows loading.
C9_FailureThenRetry ==
    [][/\ \A c \in 1..Len(calls) :
            ( /\ calls[c].status = "pending"
              /\ aiMounted /\ calls[c].inst = mounts
              /\ c <= Len(calls')
              /\ calls'[c].status # "pending" )
            => IF calls'[c].threw
               THEN /\ FetchState' = "FailedRuntime"
                    /\ briefing' = RuntimeFailureMsg
                    /\ briefing' # NotConfiguredMsg
               ELSE /\ FetchState' = "Succeeded"
                    /\ briefing' = calls'[c].text
       /\ (Failed /\ apiKey /\ refreshes' = refreshes + 1)
            => /\ FetchState' = "Loading"
               /\ calls' = Append(calls, NewCall(mounts))]_vars

\* the instance's first call threw, Refresh was clicked, the second resolved
C9_Witness ==
    /\ Running
    /\ aiMounted
    /\ refreshes = 1
    /\ FetchState = "Succeeded"
    /\ \E c, d \in CallsOf(mounts) :
          /\ c < d
          /\ calls[c].status = "applied" /\ calls[c].threw
          /\ calls[d].status = "applied" /\ ~calls[d].threw
          /\ briefing = calls[d].text

\* C10: the mounted instance has started at most one call more than Refresh
\* was clicked, and while it shows a failure none of its calls is in flight.
C10_NoAutoRetry ==
    Running /\ aiMounted =>
        /\ Cardinality(CallsOf(mounts)) <= 1 + refreshes
        /\ Failed => PendingOf(mounts) = {}

\* a click on an arrow or on a close button
MoveOrRemove ==
    \/ \E index \in 0..(Len(AVAILABLE_WIDGETS)), direction \in {"left", "right"} :
           MoveWidget(index, direction)
    \/ \E id \in CatalogIds : RemoveWidget(id)

\* the layout after the step is the layout before it with one more entry
Appended ==
    /\ Len(activeWidgets') = Len(activeWidgets) + 1
    /\ SubSeq(activeWidgets', 1, Len(activeWidgets)) = activeWidgets

\* C11: while the session is browsing no arrow and no close button can be
\* clicked, and no step of a browsing session reorders or shortens the layout.
C11_BrowsingHidesMoveRemove ==
    /\ [](Running /\ ~editMode => ~ENABLED MoveOrRemove)
    /\ [][Running /\ Running' /\ ~editMode =>
            activeWidgets' = activeWidgets \/ Appended]_vars

\* browsing again after w-ai was removed and the rest reordered while editing
C11_Witness ==
    /\ Running
    /\ ~editMode
    /\ ~showAddModal
    /\ mounts = 1
    /\ activeWidgets = <<"w-timer", "w-stats", "w-activity", "w-saved">>

\* C12: no step of a browsing session lengthens the layout.
C12_AppendOnlyWhileEditing ==
    [][Running /\ Running' /\ ~editMode =>
          Len(activeWidgets') <= Len(activeWidgets)]_vars

\* C13: the toggle button always flips the mode, and no step that changes the
\* mode changes the layout, the stored item or anything else.
C13_ToggleOnlyFlipsMode ==
    /\ [](Running => ENABLED (ToggleEdit /\ editMode' # editMode))
    /\ [][Running /\ Running' /\ editMode' # editMode =>
            /\ editMode' = ~editMode
            /\ UNCHANGED <<storage, activeWidgets, showAddModal, aiMounted,
                           mounts, briefing, loading, calls, refreshes>>]_vars

\* browsing again with a layout that was edited in this session
C13_Witness ==
    /\ Running
    /\ ~editMode
    /\ activeWidgets = <<"w-stats", "w-ai", "w-timer">>
    /\ storage.text = JSONstringify(activeWidgets)

\* how often x is an element of a
Count(a, x) == Cardinality({i \in 1..Len(a) : a[i] = x})

Elements(a) == {a[i] : i \in 1..Len(a)}

\* C14: on every non-empty array, moving the first element left and the last
\* element right changes nothing; every other move of an element of the array
\* exchanges it with its neighbour and leaves the other positions alone.
C14_MoveSwapsNeighbours ==
    Running /\ activeWidgets # <<>> =>
        LET aw == activeWidgets
            n == Len(activeWidgets)
        IN  /\ AfterMove(aw, 0, "left") = aw
            /\ AfterMove(aw, n - 1, "right") = aw
            /\ \A index \in 0..(n - 1), direction \in Directions :
                 LET t == IF direction = "left" THEN index - 1 ELSE index + 1
                     r == AfterMove(aw, index, direction)
                 IN  t >= 0 /\ t < n =>
                       /\ Len(r) = n
                       /\ r[index + 1] = aw[t + 1]
                       /\ r[t + 1] = aw[index + 1]
                       /\ \A k \in 1..n :
                            k \notin {index + 1, t + 1} => r[k] = aw[k]

\* the default layout after moveWidget(1, 'right')
C14_Witness ==
    /\ Running
    /\ activeWidgets = <<"w-ai", "w-activity", "w-stats", "w-saved", "w-timer">>
    /\ storage = Item(JSONstringify(activeWidgets))

\* C15: addWidget of an id in the array gives the array back; of an id not in
\* it, the array with the id as a new last element; adding the same id again
\* changes nothing.
C15_AddIdempotent ==
    Running =>
        \A id \in CatalogIds :
            LET aw == activeWidgets
                n == Len(activeWidgets)
                r == addWidget(activeWidgets, id)
            IN  /\ (\E i \in 1..n : aw[i] = id) => r = aw
                /\ (\A i \in 1..n : aw[i] # id) =>
                      /\ Len(r) = n + 1
                      /\ r[n + 1] = id
                      /\ SubSeq(r, 1, n) = aw
                /\ addWidget(r, id) = r

\* w-saved added to the stored layout [w-stats, w-ai]
C15_Witness ==
    /\ Running
    /\ activeWidgets = <<"w-stats", "w-ai", "w-saved">>
    /\ storage = Item(JSONstringify(activeWidgets))

\* C16: removeWidget gives the elements other than id, in their order; of an
\* id not in the array it gives the array back; removing the same id again
\* changes nothing.
C16_RemoveKeepsOrder ==
    Running =>
        \A id \in CatalogIds :
            LET aw == activeWidgets
                r == removeWidget(activeWidgets, id)
                kept == {i \in 1..Len(activeWidgets) : activeWidgets[i] # id}
            IN  /\ Len(r) = Cardinality(kept)
                /\ \A i \in kept : r[Cardinality({j \in kept : j <= i})] = aw[i]
                /\ (\A i \in 1..Len(aw) : aw[i] # id) => r = aw
                /\ removeWidget(r, id) = r

\* w-stats and w-activity removed from the default layout
C16_Witness ==
    /\ Running
    /\ activeWidgets = <<"w-ai", "w-saved", "w-timer">>
    /\ mounts = 1
    /\ storage = Item(JSONstringify(activeWidgets))

Scenario1 == <<"w-ai", "w-activity", "w-stats", "w-saved", "w-timer">>
Scenario2 == <<"w-ai", "w-activity", "w-saved", "w-timer">>
Scenario3 == <<"w-ai", "w-activity", "w-saved", "w-timer", "w-stats">>

\* C17: from the default layout moveWidget(1, 'right') gives [w-ai,
\* w-activity, w-stats, w-saved, w-timer]; from there removeWidget('w-stats')
\* gives [w-ai, w-activity, w-saved, w-timer]; from there addWidget('w-stats')
\* gives [w-ai, w-activity, w-saved, w-timer, w-stats].
C17_Scenario ==
    [][/\ activeWidgets = DefaultWidgets /\ CallMoveWidget(1, "right")
            => activeWidgets' = Scenario1
       /\ activeWidgets = Scenario1 /\ CallRemoveWidget("w-stats")
            => activeWidgets' = Scenario2
       /\ activeWidgets = Scenario2 /\ CallAddWidget("w-stats")
            => activeWidgets' = Scenario3]_vars

\* the end of the scenario, stored
C17_Witness ==
    /\ Running
    /\ activeWidgets = Scenario3
    /\ mounts = 1
    /\ storage = Item(JSONstringify(Scenario3))

\* C19: the mounted instance shows loading exactly while one of its calls is
\* in flight.
C19_LoadingIffInFlight ==
    Running /\ aiMounted => (loading <=> PendingOf(mounts) # {})

\* C20: moveWidget with any index, inside the array or outside, leaves a
\* permutation of the array: the same length and every element as often as
\* before.
C20_MoveIsPermutation ==
    [][\A index \in Indices, direction \in Directions :
          CallMoveWidget(index, direction) =>
              /\ Len(activeWidgets') = Len(activeWidgets)
              /\ \A x \in Elements(activeWidgets) \cup Elements(activeWidgets') :
                    Count(activeWidgets', x) = Count(activeWidgets, x)]_vars

\* C18: the grid shows the entries of the layout that are in the catalog, in
\* their order; an identifier that is not in the catalog is loaded with the
\* layout as stored and stays, once, in the layout and in the stored item
\* whatever is added, moved and removed.
C18_StaleIdKept ==
    /\ [](Running =>
            /\ RenderedWidgets(activeWidgets)
                 = SelectSeq(activeWidgets, LAMBDA wId : Includes(AVAILABLE_WIDGETS, wId))
            /\ Count(activeWidgets, StaleId) = 1
            /\ Load(storage).kind = "array"
            /\ Count(Load(storage).val, StaleId) = 1
            /\ storage.text = JSONstringify(activeWidgets))
    /\ [][app = "unmounted" /\ Running' =>
            /\ JSONparse(storage.text).kind = "array"
            /\ activeWidgets' = JSONparse(storage.text).val]_vars

\* the stale entry, first in the layout after the widgets round it were
\* removed, added and moved
C18_Witness ==
    /\ Running
    /\ activeWidgets = <<StaleId, "w-stats", "w-ai">>
    /\ RenderedWidgets(activeWidgets) = <<"w-stats", "w-ai">>
    /\ storage = Item(JSONstringify(activeWidgets))

====
